---- MODULE Spec2Model ----
(***************************************************************************)
(* Model of scripts/data/card_generator.py: LuhnValidator,                 *)
(* MarkovChainGenerator, BINDatabase and CardGenerator.                    *)
(*                                                                         *)
(* A Python str is a sequence of one-character strings.  Probabilities are *)
(* written in hundredths, as the decimal literals of the source are.       *)
(* get_next_digit adds them up in double precision: its draws and sums are *)
(* numbers <<h, e>> (see the section on floats).  The draws of             *)
(* generate_expiry_date are integer hundredths 0..99, i standing for a     *)
(* draw inside [i/100, (i+1)/100).                                         *)
(***************************************************************************)
EXTENDS Integers, Sequences, FiniteSets, TLC

VARIABLES source, database, now, pc, call, ret

vars == <<source, database, now, pc, call, ret>>

(***************************************************************************)
(* Bounds of the model.                                                    *)
(***************************************************************************)
\* number of distinct random.random() outcomes a card generation draws from
NumDraws == 2
\* number of distinct sequence numbers randint(10, 99) a generation draws from
NumSequences == 2
\* number of distinct expiry draws (years, month) a card generation draws from
NumExpiryDraws == 1
\* generate_cvv is applied to the card-number endings 0000 .. MaxLast4
MaxLast4 == 9999
\* first calendar year of the clock, and how many further years it covers
FirstYear == 2023
MoreYears == 2
\* number of distinct draws generate_expiry_date takes its years and its
\* month branch from
NumYearDraws == 20
NumMonthDraws == 5

\* the longest digit string handed to calculate_check_digit
MaxLuhnLen == 3
\* on its own get_next_digit gets the sequences of no digit, of one digit, and
\* of one digit after each of the first NumPrefixes digits
NumPrefixes == 2
\* around every hundredth, get_next_digit on its own draws the Slack values of
\* random.random() next below it and the Slack + 1 values from it upwards
Slack == 2
\* how many values of random.random() above a hundredth the draw taken from
\* inside the interval that starts there lies
Inside == 1000000

(***************************************************************************)
(* Python str and int conversions.                                         *)
(***************************************************************************)
DigitChars == <<"0", "1", "2", "3", "4", "5", "6", "7", "8", "9">>

IsDigit(c) == \E i \in 1..10 : DigitChars[i] = c

\* int(c) of a one-character string that is a digit
DigitOf(c) == CHOOSE d \in 0..9 : DigitChars[d + 1] = c

\* int(s) raises ValueError unless s is a non-empty string of digits
CanInt(s) == Len(s) > 0 /\ \A i \in 1..Len(s) : IsDigit(s[i])

RECURSIVE IntOf(_)
IntOf(s) ==
    IF Len(s) = 0 THEN 0
    ELSE IntOf(SubSeq(s, 1, Len(s) - 1)) * 10 + DigitOf(s[Len(s)])

RECURSIVE Str(_)
Str(n) ==
    IF n < 10 THEN <<DigitChars[n + 1]>>
    ELSE Str(n \div 10) \o <<DigitChars[(n % 10) + 1]>>

RECURSIVE Zfill(_, _)
Zfill(s, width) == IF Len(s) >= width THEN s ELSE Zfill(<<"0">> \o s, width)

\* s[lo:hi]
Slice(s, lo, hi) ==
    IF lo >= Len(s) THEN <<>> ELSE SubSeq(s, lo + 1, IF hi < Len(s) THEN hi ELSE Len(s))

\* s[:n]
Prefix(s, n) == Slice(s, 0, n)

\* s[n:]
Suffix(s, n) == Slice(s, n, Len(s))

\* s[-n:]
Last(s, n) == IF Len(s) > n THEN SubSeq(s, Len(s) - n + 1, Len(s)) ELSE s

\* s.replace(c, '')
RECURSIVE Remove(_, _)
Remove(s, c) ==
    IF Len(s) = 0 THEN <<>>
    ELSE IF Head(s) = c THEN Remove(Tail(s), c)
    ELSE <<Head(s)>> \o Remove(Tail(s), c)

(***************************************************************************)
(* LuhnValidator                                                           *)
(***************************************************************************)
\* LuhnTotal with a doubled digit above 9 left as it is (no "n -= 9")
RECURSIVE LuhnTotalNoFold(_, _, _, _)
LuhnTotalNoFold(card_number, i, should_double, total) ==
    IF i = 0 THEN total
    ELSE LET n == DigitOf(card_number[i])
         IN  LuhnTotalNoFold(card_number, i - 1, ~should_double,
                             total + (IF should_double THEN 2 * n ELSE n))

\* the loop "for digit in reversed(card_number)", at position i with the
\* running total and should_double
RECURSIVE LuhnTotal(_, _, _, _)
LuhnTotal(card_number, i, should_double, total) ==
    IF i = 0 THEN total
    ELSE LET n == DigitOf(card_number[i])
             d == IF should_double
                  THEN (IF 2 * n > 9 THEN 2 * n - 9 ELSE 2 * n)
                  ELSE n
         IN  LuhnTotal(card_number, i - 1, ~should_double, total + d)

\* calculate_check_digit starting the scan undoubled, as validate does
calculate_check_digitUndoubled(card_number) ==
    Str((10 - (LuhnTotal(card_number, Len(card_number), FALSE, 0) % 10)) % 10)

calculate_check_digit(card_number) ==
    Str((10 - (LuhnTotal(card_number, Len(card_number), TRUE, 0) % 10)) % 10)

\* validate starting the scan doubled, as calculate_check_digit does
validateDoubled(card_number) ==
    LuhnTotal(card_number, Len(card_number), TRUE, 0) % 10 = 0

validate(card_number) ==
    LuhnTotal(card_number, Len(card_number), FALSE, 0) % 10 = 0

\* int(digit) raises ValueError on the first character that is no digit
LuhnRaises(card_number) == \E i \in 1..Len(card_number) : ~IsDigit(card_number[i])

(***************************************************************************)
(* MarkovChainGenerator                                                    *)
(***************************************************************************)
\* row p + 1 is TRANSITION_MATRIX[p], in hundredths
TRANSITION_MATRIX ==
    << <<8, 11, 12, 10, 9, 11, 8, 10, 11, 10>>,
       <<10, 8, 11, 12, 9, 10, 11, 9, 10, 10>>,
       <<11, 10, 8, 11, 12, 9, 10, 11, 9, 9>>,
       <<9, 11, 10, 8, 11, 12, 9, 10, 11, 9>>,
       <<10, 9, 11, 10, 8, 11, 12, 9, 10, 10>>,
       <<11, 10, 9, 11, 10, 8, 11, 12, 9, 9>>,
       <<9, 11, 10, 9, 11, 10, 8, 11, 12, 9>>,
       <<10, 9, 11, 10, 9, 11, 10, 8, 11, 11>>,
       <<11, 10, 9, 11, 10, 9, 11, 10, 8, 11>>,
       <<10, 11, 10, 9, 11, 10, 9, 11, 10, 9>> >>

(***************************************************************************)
(* Floats.  The pair <<h, e>> is the real number h/100 + e/(100 * 2^56): h *)
(* hundredths and e units of 2^-56 hundredths, e small.  The doubles from  *)
(* 2^-6 up to 2 are multiples of a power of two that is a whole number of  *)
(* units (2^-53 is 800 units), so the rounding of a literal and of a sum   *)
(* to the nearest double, ties to even, is integer arithmetic on e.        *)
(***************************************************************************)

\* 2^n modulo m
RECURSIVE Pow2Mod(_, _)
Pow2Mod(n, m) == IF n = 0 THEN 1 % m ELSE (2 * Pow2Mod(n - 1, m)) % m

\* a hundredth in units, modulo the spacings of the doubles and their doubles
HundredthMod == [m \in {25, 50, 100, 200, 400, 800, 1600, 3200} |-> Pow2Mod(56, m)]

\* x >= hundredths/100
AtLeast(x, hundredths) == x[1] > hundredths \/ (x[1] = hundredths /\ x[2] >= 0)

\* the spacing of the doubles of the binade of x, in units: 2^-52 in [1, 2),
\* 2^-53 in [1/2, 1), ... 2^-58 in [1/64, 1/32)
Ulp(x) ==
    IF AtLeast(x, 100) THEN 1600
    ELSE IF AtLeast(x, 50) THEN 800
    ELSE IF AtLeast(x, 25) THEN 400
    ELSE IF x[1] >= 13 THEN 200
    ELSE IF x[1] >= 7 THEN 100
    ELSE IF x[1] >= 4 THEN 50
    ELSE 25

\* x in units, modulo m
Residue(x, m) == (((x[1] * HundredthMod[m]) % m) + (x[2] % m)) % m

\* the double nearest to x, the one with the even significand on a tie
RoundToDouble(x) ==
    LET ulp == Ulp(x)
        r == Residue(x, ulp)
        below == <<x[1], x[2] - r>>
        above == <<x[1], x[2] - r + ulp>>
    IN  IF r = 0 THEN x
        ELSE IF 2 * r < ulp THEN below
        ELSE IF 2 * r > ulp THEN above
        ELSE IF Residue(below, 2 * ulp) = 0 THEN below ELSE above

\* the values of the decimal literals 0.02 .. 1.00, by their hundredths; 0 is
\* the int 0
FloatLiterals ==
    [hundredths \in (0..100) \ {1} |->
        IF hundredths = 0 THEN <<0, 0>> ELSE RoundToDouble(<<hundredths, 0>>)]

FloatOf(hundredths) == FloatLiterals[hundredths]

\* a + b in double precision
FloatAdd(a, b) == RoundToDouble(<<a[1] + b[1], a[2] + b[2]>>)

\* a < b
FloatLess(a, b) == a[1] < b[1] \/ (a[1] = b[1] /\ a[2] < b[2])

\* FirstExceeding comparing the draw with the entry of the column alone
RECURSIVE FirstExceedingNoSum(_, _, _, _)
FirstExceedingNoSum(probabilities, rand, digit, cumulative) ==
    IF digit > 9 THEN 0
    ELSE IF FloatLess(rand, FloatOf(probabilities[digit + 1])) THEN digit
    ELSE FirstExceedingNoSum(probabilities, rand, digit + 1, cumulative)

\* the loop "for digit in range(10)" from column digit on
RECURSIVE FirstExceeding(_, _, _, _)
FirstExceeding(probabilities, rand, digit, cumulative) ==
    IF digit > 9 THEN 0
    ELSE LET sum == FloatAdd(cumulative, FloatOf(probabilities[digit + 1]))
         IN  IF FloatLess(rand, sum) THEN digit
             ELSE FirstExceeding(probabilities, rand, digit + 1, sum)

\* rand is the draw of random.random(); uniform the draw of randint(0, 9)
get_next_digit(previous_segment, rand, uniform) ==
    IF Len(previous_segment) = 0 THEN uniform
    ELSE LET last_digit == DigitOf(previous_segment[Len(previous_segment)])
         IN  FirstExceeding(TRANSITION_MATRIX[last_digit + 1], rand, 0, FloatOf(0))

(***************************************************************************)
(* Values: a raised exception, a returned value, a JSON value.             *)
(***************************************************************************)
\* the outcome of a call: an exception raised, or a value returned
Raise(exception) == [kind |-> "raise", raised |-> exception]

Return(value) == [kind |-> "return", value |-> value]

\* dict.get(key, default)
Get(dict, key, default) == IF key \in DOMAIN dict THEN dict[key] ELSE default

\* a JSON object / a Python dict with the given items; {} has no items
Object(items) == [type |-> "object", items |-> items]

EmptyDict == Object(<<>>)

\* JSON null / Python None
Null == [type |-> "null"]

\* a JSON array
Array == [type |-> "array"]

(***************************************************************************)
(* BINDatabase                                                             *)
(***************************************************************************)
Profile(brand, length, cvvLength, bank, country, countryName) ==
    [brand |-> brand, length |-> length, cvvLength |-> cvvLength, bank |-> bank,
     country |-> country, countryName |-> countryName]

\* A lookup table with entries keyed by prefixes of 1, 2, 3, 4, 5 and 6 digits.
BinTable ==
    (Str(451710) :> Profile("Visa", 16, 3, "Jyske Bank", "DK", "Denmark"))
    @@ (Str(45171) :> Profile("Visa", 16, 3, "Nordea", "DK", "Denmark"))
    @@ (Str(4517) :> Profile("Visa", 16, 3, "Danske Bank", "DK", "Denmark"))
    @@ (Str(451) :> Profile("Visa", 16, 3, "Handelsbanken", "SE", "Sweden"))
    @@ (Str(45) :> Profile("Visa", 16, 3, "Chase", "US", "United States"))
    @@ (Str(4) :> Profile("Visa", 13, 3, "Unknown", "US", "United States"))
    @@ (Str(37) :> Profile("American Express", 15, 4, "American Express", "US",
                           "United States"))
    @@ (Str(62) :> Profile("UnionPay", 19, 3, "China UnionPay", "CN", "China"))

\* What the file at db_path may be: absent, not JSON, JSON that is no object,
\* an object without "bins", an object whose "bins" is a table, an object
\* whose "bins" is null.
Missing == [kind |-> "missing"]

Corrupt == [kind |-> "corrupt"]

Json(data) == [kind |-> "json", data |-> data]

Sources ==
    { Missing, Corrupt, Json(Array), Json(Object(<<>>)),
      Json(Object([bins |-> Object(BinTable)])),
      Json(Object([bins |-> Null])) }

\* the lookup sources that are missing or malformed
Malformed ==
    { Missing, Corrupt, Json(Array), Json(Object(<<>>)),
      Json(Object([bins |-> Null])) }

\* open() or json.load() raises, or data has no get(): except -> {}
_load_database(path) ==
    IF path.kind # "json" THEN EmptyDict
    ELSE IF path.data.type # "object" THEN EmptyDict
    ELSE Get(path.data.items, "bins", EmptyDict)

\* _detect_by_rules without the prefix 37 of American Express
_detect_by_rulesNo37(bin_code) ==
    LET rule(brand, length, cvvLength) ==
            [brand |-> brand, length |-> length, cvvLength |-> cvvLength,
             bank |-> "Unknown", country |-> "US"]
    IN  IF Prefix(bin_code, 1) = <<"4">>
        THEN rule("Visa", 16, 3)
        ELSE IF Prefix(bin_code, 1) = <<"5">>
        THEN rule("Mastercard", 16, 3)
        ELSE IF Prefix(bin_code, 2) = <<"3", "4">>
        THEN rule("American Express", 15, 4)
        ELSE rule("Unknown", 16, 3)

_detect_by_rules(bin_code) ==
    LET rule(brand, length, cvvLength) ==
            [brand |-> brand, length |-> length, cvvLength |-> cvvLength,
             bank |-> "Unknown", country |-> "US"]
    IN  IF Prefix(bin_code, 1) = <<"4">>
        THEN rule("Visa", 16, 3)
        ELSE IF Prefix(bin_code, 1) = <<"5">>
        THEN rule("Mastercard", 16, 3)
        ELSE IF Prefix(bin_code, 2) \in {<<"3", "4">>, <<"3", "7">>}
        THEN rule("American Express", 15, 4)
        ELSE rule("Unknown", 16, 3)

\* detect_card_brand trying the 2-digit prefix before the 4-digit one
detect_card_brandTwoFirst(db, bin_code) ==
    IF db.type # "object" THEN Raise("TypeError")
    ELSE LET bin_4 == Prefix(bin_code, 4)
             bin_2 == Prefix(bin_code, 2)
             bin_1 == Prefix(bin_code, 1)
         IN  IF bin_code \in DOMAIN db.items THEN Return(db.items[bin_code])
             ELSE IF bin_2 \in DOMAIN db.items THEN Return(db.items[bin_2])
             ELSE IF bin_4 \in DOMAIN db.items THEN Return(db.items[bin_4])
             ELSE IF bin_1 \in DOMAIN db.items THEN Return(db.items[bin_1])
             ELSE Return(_detect_by_rules(bin_code))

\* "bin_code in self.database" raises TypeError when the database is None
detect_card_brand(db, bin_code) ==
    IF db.type # "object" THEN Raise("TypeError")
    ELSE LET bin_4 == Prefix(bin_code, 4)
             bin_2 == Prefix(bin_code, 2)
             bin_1 == Prefix(bin_code, 1)
         IN  IF bin_code \in DOMAIN db.items THEN Return(db.items[bin_code])
             ELSE IF bin_4 \in DOMAIN db.items THEN Return(db.items[bin_4])
             ELSE IF bin_2 \in DOMAIN db.items THEN Return(db.items[bin_2])
             ELSE IF bin_1 \in DOMAIN db.items THEN Return(db.items[bin_1])
             ELSE Return(_detect_by_rules(bin_code))

(***************************************************************************)
(* The clock: datetime.now() as a year and a day of that year.             *)
(***************************************************************************)
IsLeap(year) == year % 4 = 0 /\ (year % 100 # 0 \/ year % 400 = 0)

DaysIn(year) == IF IsLeap(year) THEN 366 ELSE 365

\* date + timedelta(days=days)
RECURSIVE AddDays(_, _)
AddDays(date, days) ==
    IF date.doy + days <= DaysIn(date.year)
    THEN [year |-> date.year, doy |-> date.doy + days]
    ELSE AddDays([year |-> date.year + 1, doy |-> 1],
                 days - (DaysIn(date.year) - date.doy + 1))

(***************************************************************************)
(* CardGenerator                                                           *)
(***************************************************************************)
\* int(md5(bank_name).hexdigest()[:8], 16) % 100 of the bank names of BinTable
Md5Seed ==
    [bank \in {"Jyske Bank", "Nordea", "Danske Bank", "Handelsbanken", "Chase",
               "American Express", "China UnionPay"} |->
        CASE bank = "Jyske Bank" -> 85
          [] bank = "Nordea" -> 31
          [] bank = "Danske Bank" -> 23
          [] bank = "Handelsbanken" -> 9
          [] bank = "Chase" -> 50
          [] bank = "American Express" -> 16
          [] bank = "China UnionPay" -> 22]

hash_bank_name(bank_name) ==
    IF bank_name = "" \/ bank_name = "Unknown" THEN 0 ELSE Md5Seed[bank_name]

\* MiddleDigits handing get_next_digit an empty sequence instead of the segment
RECURSIVE MiddleDigitsUnconditioned(_, _, _)
MiddleDigitsUnconditioned(segment, remaining, rands) ==
    IF remaining <= 0 THEN segment
    ELSE MiddleDigitsUnconditioned(
             segment \o Str(get_next_digit(<<>>, Head(rands), Head(rands)[1] \div 10)),
             remaining - 1, Tail(rands))

\* the loop "for _ in range(length - 4)": rands are the draws of random.random()
\* of the calls of get_next_digit still to come
RECURSIVE MiddleDigits(_, _, _)
MiddleDigits(segment, remaining, rands) ==
    IF remaining <= 0 THEN segment
    ELSE MiddleDigits(
             segment \o Str(get_next_digit(segment, Head(rands), Head(rands)[1] \div 10)),
             remaining - 1, Tail(rands))

\* sequence is the draw of random.randint(10, 99)
generate_account_segment(length, bin_code, bank_name, rands, sequence) ==
    LET bank_seed == hash_bank_name(bank_name)
        bin_last_4 == IF Len(bin_code) >= 4 THEN Last(bin_code, 4) ELSE bin_code
    IN  IF ~CanInt(bin_last_4) THEN Raise("ValueError")
        ELSE LET branch_code == (IntOf(bin_last_4) + bank_seed) % 100
                 branch == Zfill(Str(branch_code), 2)
             IN  Return(MiddleDigits(branch, length - 4, rands) \o Str(sequence))

year_weights == << <<2, 15>>, <<3, 40>>, <<4, 25>>, <<5, 15>>, <<6, 5>> >>

\* YearsToAdd taking the position of the entry for its years
RECURSIVE YearsToAddIndex(_, _, _)
YearsToAddIndex(rand, i, cumulative) ==
    IF i > Len(year_weights) THEN 3
    ELSE IF rand < cumulative + year_weights[i][2] THEN i
    ELSE YearsToAddIndex(rand, i + 1, cumulative + year_weights[i][2])

\* the loop "for years, weight in year_weights" from entry i on
RECURSIVE YearsToAdd(_, _, _)
YearsToAdd(rand, i, cumulative) ==
    IF i > Len(year_weights) THEN 3
    ELSE IF rand < cumulative + year_weights[i][2] THEN year_weights[i][1]
    ELSE YearsToAdd(rand, i + 1, cumulative + year_weights[i][2])

common_months == <<3, 5, 6, 9, 11, 12>>

\* f"{month:02d}/{year % 100:02d}"
FormatExpiry(month, year) ==
    Zfill(Str(month), 2) \o <<"/">> \o Zfill(Str(year % 100), 2)

\* draws: rand_years and rand_month are the two draws of random.random(),
\* choice the index random.choice takes, month the draw of randint(1, 12)
generate_expiry_date(today, draws) ==
    LET years_to_add == YearsToAdd(draws.rand_years, 1, 0)
        month == IF draws.rand_month < 80 THEN common_months[draws.choice]
                 ELSE draws.month
        expiry_date == AddDays(today, 365 * years_to_add)
    IN  FormatExpiry(month, expiry_date.year)

weak_patterns ==
    { <<d, d, d>> : d \in {"1", "2", "3", "4", "5", "6", "7", "8", "9", "0"} }

\* generate_cvv mapping a 3-digit CVV with "% 1000"
generate_cvvMod1000(card_number, expiry_date, cvv_length) ==
    LET seed == IntOf(Last(card_number, 4)) + IntOf(Remove(expiry_date, "/"))
        pseudo_random == (seed * 9301 + 49297) % 233280
        cvv == IF cvv_length = 4 THEN Str((pseudo_random % 9000) + 1000)
               ELSE Str((pseudo_random % 1000) + 100)
        offset == IF cvv_length = 4 THEN 1234 ELSE 123
        again == IF cvv_length = 4
                 THEN Str(((pseudo_random + offset) % 9000) + 1000)
                 ELSE Str(((pseudo_random + offset) % 1000) + 100)
    IN  Prefix(IF Prefix(cvv, 3) \in weak_patterns THEN again ELSE cvv, cvv_length)

generate_cvv(card_number, expiry_date, cvv_length) ==
    LET seed == IntOf(Last(card_number, 4)) + IntOf(Remove(expiry_date, "/"))
        pseudo_random == (seed * 9301 + 49297) % 233280
        cvv == IF cvv_length = 4 THEN Str((pseudo_random % 9000) + 1000)
               ELSE Str((pseudo_random % 900) + 100)
        offset == IF cvv_length = 4 THEN 1234 ELSE 123
        again == IF cvv_length = 4
                 THEN Str(((pseudo_random + offset) % 9000) + 1000)
                 ELSE Str(((pseudo_random + offset) % 900) + 100)
    IN  Prefix(IF Prefix(cvv, 3) \in weak_patterns THEN again ELSE cvv, cvv_length)

\* the formatted card number
Formatted(card_length, full_card_number) ==
    IF card_length = 15
    THEN Slice(full_card_number, 0, 4) \o <<" ">> \o Slice(full_card_number, 4, 10)
         \o <<" ">> \o Suffix(full_card_number, 10)
    ELSE Slice(full_card_number, 0, 4) \o <<" ">> \o Slice(full_card_number, 4, 8)
         \o <<" ">> \o Slice(full_card_number, 8, 12) \o <<" ">>
         \o Suffix(full_card_number, 12)

\* the call generate_card makes to itself when validation fails
Recurse == [kind |-> "recurse"]

\* One pass of generate_card; draws holds the random draws of the pass: rands
\* (get_next_digit), sequence (randint(10, 99)) and expiry.
generate_card(db, today, bin_code, draws) ==
    LET detected == detect_card_brand(db, bin_code)
    IN  IF detected.kind = "raise" THEN detected
        ELSE
        LET brand_info == detected.value
            card_length == Get(brand_info, "length", 16)
            cvv_length == Get(brand_info, "cvvLength", 3)
            bank_name == Get(brand_info, "bank", "Unknown")
            account_length == card_length - Len(bin_code) - 1
            account_segment ==
                generate_account_segment(account_length, bin_code, bank_name,
                                         draws.rands, draws.sequence)
        IN  IF account_segment.kind = "raise" THEN account_segment
            ELSE
            LET card_without_check == bin_code \o account_segment.value
            IN  IF LuhnRaises(card_without_check) THEN Raise("ValueError")
                ELSE
                LET check_digit == calculate_check_digit(card_without_check)
                    full_card_number == card_without_check \o check_digit
                    expiry_date == generate_expiry_date(today, draws.expiry)
                IN  IF ~validate(full_card_number) THEN Recurse
                    ELSE Return(
                        [cardNumber |-> full_card_number,
                         cardNumberFormatted |-> Formatted(card_length, full_card_number),
                         expiryDate |-> expiry_date,
                         cvv |-> generate_cvv(full_card_number, expiry_date, cvv_length),
                         brand |-> Get(brand_info, "brand", "Unknown"),
                         bank |-> bank_name,
                         country |-> Get(brand_info, "country", "US"),
                         countryName |-> Get(brand_info, "countryName", "United States")])

(***************************************************************************)
(* Inputs: the outcomes of the random draws and the BINs of the calls.     *)
(***************************************************************************)
\* n outcomes of random.random(), evenly spread, in hundredths
\* the value of random.random(), a multiple of 2^-53, that is the first at or
\* above hundredths/100 (j = 0), the j-th after it, or the -j-th before it
Draw(hundredths, j) ==
    <<hundredths, ((800 - Residue(<<hundredths, 0>>, 800)) % 800) + 800 * j>>

Draws(n) == { (i * 100) \div n : i \in 0..(n - 1) }

\* n outcomes of random.randint(a, b), evenly spread, both ends included
RandInts(a, b, n) ==
    IF n <= 1 THEN {a} ELSE { a + (i * (b - a)) \div (n - 1) : i \in 0..(n - 1) }

\* the draws of one call of generate_expiry_date: the month branch taken
\* decides which of choice and month is drawn
ExpiryDraws(rand_years, rand_month, choices, months) ==
    UNION { { [rand_years |-> ry, rand_month |-> rm, choice |-> c, month |-> m] :
                c \in (IF rm < 80 THEN choices ELSE {1}),
                m \in (IF rm < 80 THEN {1} ELSE months) } :
            <<ry, rm>> \in rand_years \X rand_month }

GenBins ==
    { Str(451710), Str(453211), Str(532959), Str(371234), Str(999999),
      Str(451799) \o Str(12345),
      Str(371234) \o Str(567890),
      Str(532959) \o Str(123456789),
      Str(41111111) \o Str(11111111),
      Str(45171) \o <<"a">>,
      <<"a">> \o Str(53211),
      <<>> }

DetectBins ==
    GenBins \cup
    { Str(4), Str(45), Str(451), Str(4517), Str(45171), Str(451799), Str(451999),
      Str(459999), Str(499999), Str(5), Str(3), Str(34), Str(37), Str(349999),
      Str(36), Str(621234), Str(6) }

\* how many times a pass of generate_card on bin_code calls get_next_digit:
\* none when the pass raises before the loop
MiddleCount(db, bin_code) ==
    LET detected == detect_card_brand(db, bin_code)
        n == Get(detected.value, "length", 16) - Len(bin_code) - 1 - 4
    IN  IF detected.kind = "raise" \/ ~CanInt(Last(bin_code, 4)) \/ n < 0 THEN 0 ELSE n

Clock ==
    { [year |-> y, doy |-> d] :
        <<y, d>> \in { yd \in (FirstYear..(FirstYear + MoreYears)) \X (1..366) :
                         yd[2] <= DaysIn(yd[1]) } }

NoCall == [op |-> "none"]

NoResult == [kind |-> "none"]

(***************************************************************************)
(* The state after construction, and the calls.                            *)
(***************************************************************************)
\* BINDatabase.__init__ on any lookup source
Init ==
    /\ source \in Sources
    /\ database = _load_database(source)
    /\ now = [year |-> FirstYear, doy |-> 1]
    /\ pc = "idle"
    /\ call = NoCall
    /\ ret = NoResult

\* where control is after a call with the given outcome: an exception nobody
\* catches ends the process
After(outcome) ==
    IF outcome.kind = "return" THEN "returned"
    ELSE IF outcome.kind = "recurse" THEN "regenerating"
    ELSE "raised"

DetectCardBrand ==
    /\ pc = "idle"
    /\ \E bin_code \in DetectBins :
         LET outcome == detect_card_brand(database, bin_code)
         IN  /\ call' = [op |-> "detect_card_brand", bin_code |-> bin_code]
             /\ ret' = outcome
             /\ pc' = After(outcome)
    /\ UNCHANGED <<source, database, now>>

\* a call of generate_card, or the call it makes to itself after a failed
\* validation (depth counts those)
GenerateCard ==
    /\ pc \in {"idle", "regenerating"}
    /\ \E bin_code \in GenBins :
         /\ pc = "regenerating" => bin_code = call.bin_code
         /\ \E rands \in [1..MiddleCount(database, bin_code)
                            -> { Draw(h, Inside) : h \in Draws(NumDraws) }],
               sequence \in RandInts(10, 99, NumSequences),
               expiry \in ExpiryDraws(Draws(NumExpiryDraws), Draws(NumExpiryDraws),
                                      RandInts(1, 6, NumExpiryDraws),
                                      RandInts(1, 12, NumExpiryDraws)) :
              LET outcome == generate_card(database, now, bin_code,
                                 [rands |-> rands, sequence |-> sequence,
                                  expiry |-> expiry])
              IN  /\ call' = [op |-> "generate_card", bin_code |-> bin_code,
                              depth |-> IF pc = "regenerating" THEN call.depth + 1 ELSE 0,
                              rands |-> rands, sequence |-> sequence]
                  /\ ret' = outcome
                  /\ pc' = After(outcome)
    /\ UNCHANGED <<source, database, now>>

\* the caller takes the returned value and goes on
ReturnToCaller ==
    /\ pc = "returned"
    /\ pc' = "idle"
    /\ call' = NoCall
    /\ ret' = NoResult
    /\ UNCHANGED <<source, database, now>>

Next == DetectCardBrand \/ GenerateCard \/ ReturnToCaller

Spec == Init /\ [][Next]_vars

(***************************************************************************)
(* generate_cvv on its own: every card-number ending 0000 .. MaxLast4,     *)
(* every month of some years an expiry can fall in, both CVV lengths.      *)
(***************************************************************************)
InitStatic ==
    /\ source = Missing
    /\ database = _load_database(source)
    /\ pc = "idle"
    /\ call = NoCall
    /\ ret = NoResult

InitCvv == InitStatic /\ now = [year |-> FirstYear, doy |-> 1]

GenerateCvv ==
    /\ pc = "idle"
    /\ \E last4 \in 0..MaxLast4, month \in 1..12,
          year \in (FirstYear + 2)..(FirstYear + 2 + MoreYears), cvv_length \in {3, 4} :
         LET card_number == Zfill(Str(last4), 4)
             expiry_date == FormatExpiry(month, year)
         IN  /\ call' = [op |-> "generate_cvv", card_number |-> card_number,
                         expiry_date |-> expiry_date, cvv_length |-> cvv_length]
             /\ ret' = Return(generate_cvv(card_number, expiry_date, cvv_length))
             /\ pc' = "returned"
    /\ UNCHANGED <<source, database, now>>

NextCvv == GenerateCvv \/ ReturnToCaller

SpecCvv == InitCvv /\ [][NextCvv]_vars

(***************************************************************************)
(* generate_expiry_date on its own: every day of the clock's years.        *)
(***************************************************************************)
InitExpiry == InitStatic /\ now \in Clock

GenerateExpiryDate ==
    /\ pc = "idle"
    /\ \E draws \in ExpiryDraws(Draws(NumYearDraws), Draws(NumMonthDraws),
                                1..Len(common_months), 1..12) :
         /\ call' = [op |-> "generate_expiry_date", draws |-> draws]
         /\ ret' = Return(generate_expiry_date(now, draws))
         /\ pc' = "returned"
    /\ UNCHANGED <<source, database, now>>

NextExpiry == GenerateExpiryDate \/ ReturnToCaller

SpecExpiry == InitExpiry /\ [][NextExpiry]_vars

(***************************************************************************)
(* LuhnValidator on its own: calculate_check_digit on every digit string   *)
(* of up to MaxLuhnLen characters, validate on every one of up to one more.*)
(***************************************************************************)
\* the ten digit characters
DigitSet == { DigitChars[i] : i \in 1..10 }

DigitStrings(lo, hi) == UNION { [1..n -> DigitSet] : n \in lo..hi }

CalculateCheckDigit ==
    /\ pc = "idle"
    /\ \E card_number \in DigitStrings(0, MaxLuhnLen) :
         /\ call' = [op |-> "calculate_check_digit", card_number |-> card_number]
         /\ ret' = Return(calculate_check_digit(card_number))
         /\ pc' = "returned"
    /\ UNCHANGED <<source, database, now>>

Validate ==
    /\ pc = "idle"
    /\ \E card_number \in DigitStrings(1, MaxLuhnLen + 1) :
         /\ call' = [op |-> "validate", card_number |-> card_number]
         /\ ret' = Return(validate(card_number))
         /\ pc' = "returned"
    /\ UNCHANGED <<source, database, now>>

NextLuhn == CalculateCheckDigit \/ Validate \/ ReturnToCaller

SpecLuhn == InitCvv /\ [][NextLuhn]_vars

(***************************************************************************)
(* MarkovChainGenerator.get_next_digit on its own: the empty sequence,     *)
(* every last digit alone and after another digit; for a non-empty         *)
(* sequence, around every hundredth the values of random.random() next to  *)
(* it and one inside the interval.                                         *)
(***************************************************************************)
PreviousSegments ==
    DigitStrings(0, 1)
    \cup { <<DigitChars[q], d>> : q \in 1..NumPrefixes, d \in DigitSet }

RandomDraws ==
    { Draw(h, j) : h \in 0..99, j \in (0..Slack) \cup {Inside} }
    \cup { Draw(h, -j) : h \in 1..100, j \in 1..Slack }

\* the empty sequence takes its digit from randint(0, 9) and draws no
\* random.random(); a non-empty one the other way round
GetNextDigit ==
    /\ pc = "idle"
    /\ \E previous_segment \in PreviousSegments :
         \E rand \in IF Len(previous_segment) = 0 THEN {Draw(0, 0)} ELSE RandomDraws,
            uniform \in IF Len(previous_segment) = 0 THEN 0..9 ELSE {0} :
           /\ call' = [op |-> "get_next_digit", previous_segment |-> previous_segment,
                       rand |-> rand, uniform |-> uniform]
           /\ ret' = Return(get_next_digit(previous_segment, rand, uniform))
           /\ pc' = "returned"
    /\ UNCHANGED <<source, database, now>>

NextMarkov == GetNextDigit \/ ReturnToCaller

SpecMarkov == InitCvv /\ [][NextMarkov]_vars

(***************************************************************************)
(* Definitions the properties are stated with.                             *)
(***************************************************************************)
AllDigits(s) == \A i \in 1..Len(s) : IsDigit(s[i])

\* The Luhn sum as the standard states it: counting from the right, every
\* second digit is doubled and replaced by the sum of the digits of its double.
RECURSIVE LuhnStandardSum(_, _)
LuhnStandardSum(s, k) ==
    IF k > Len(s) THEN 0
    ELSE LET d == DigitOf(s[Len(s) - k + 1])
         IN  (IF k % 2 = 0 THEN ((2 * d) \div 10) + ((2 * d) % 10) ELSE d)
             + LuhnStandardSum(s, k + 1)

GenerateCardCalled == call.op = "generate_card"

CardReturned == GenerateCardCalled /\ ret.kind = "return"

\* the profile the registry resolves the BIN of the call to
ResolvedProfile == detect_card_brand(database, call.bin_code).value

ResolvedLength == Get(ResolvedProfile, "length", 16)

AccountSegmentLength == ResolvedLength - Len(call.bin_code) - 1

\* the sizes of the groups of digits a formatted number is made of
RECURSIVE GroupSizes(_, _)
GroupSizes(formatted, size) ==
    IF Len(formatted) = 0 THEN <<size>>
    ELSE IF Head(formatted) = " " THEN <<size>> \o GroupSizes(Tail(formatted), 0)
    ELSE GroupSizes(Tail(formatted), size + 1)

\* the keys detect_card_brand tries for the BIN of the call that the table holds
Hits ==
    { call.bin_code, Prefix(call.bin_code, 4), Prefix(call.bin_code, 2),
      Prefix(call.bin_code, 1) } \cap DOMAIN database.items

Longest(keys) == CHOOSE k \in keys : \A j \in keys : Len(j) <= Len(k)

DetectCalled == call.op = "detect_card_brand" /\ database.type = "object"

(***************************************************************************)
(* C1: for every all-digit BIN and every outcome of the draws, the card    *)
(* number of the record generate_card returns passes Luhn validation:      *)
(* validate accepts it, and its Luhn sum is a multiple of 10.              *)
(***************************************************************************)
C1_GeneratedCardPassesLuhn ==
    (CardReturned /\ AllDigits(call.bin_code)) =>
        /\ validate(ret.value.cardNumber)
        /\ LuhnStandardSum(ret.value.cardNumber, 1) % 10 = 0

C1_Witness ==
    /\ CardReturned
    /\ call.bin_code = Str(451710)
    /\ source.kind = "json"
    /\ Len(ret.value.cardNumber) = 16
    /\ validate(ret.value.cardNumber)

(***************************************************************************)
(* C2: for every all-digit BIN whose accountSegmentLength is positive      *)
(* (1, 2, 3 included) the generated card number has exactly profile.length *)
(* digits: BIN + a segment of accountSegmentLength digits + a check digit. *)
(***************************************************************************)
C2_LengthIsProfileLength ==
    (CardReturned /\ AllDigits(call.bin_code) /\ AccountSegmentLength > 0) =>
        /\ Len(ret.value.cardNumber) = ResolvedLength
        /\ Len(ret.value.cardNumber) = Len(call.bin_code) + AccountSegmentLength + 1
        /\ Prefix(ret.value.cardNumber, Len(call.bin_code)) = call.bin_code

(***************************************************************************)
(* C3: no CVV generate_cvv returns starts with three equal digits: a CVV   *)
(* whose first mapping starts with 000, 111, ..., 999 does not after the   *)
(* one recomputation with the offset.                                      *)
(***************************************************************************)
C3_NoWeakCvv ==
    call.op = "generate_cvv" => Prefix(ret.value, 3) \notin weak_patterns

(***************************************************************************)
(* C4: detect_card_brand returns the table entry of the longest of the     *)
(* keys it tries (the full BIN, its first 4, 2, 1 characters) that the     *)
(* table holds: the full BIN's entry when there is one, and never an entry *)
(* keyed by the first 3 or the first 5 characters of a 6-digit BIN.        *)
(***************************************************************************)
C4_ResolutionPrecedence ==
    (DetectCalled /\ Hits # {}) =>
        /\ ret = Return(database.items[Longest(Hits)])
        /\ call.bin_code \in DOMAIN database.items =>
               ret.value = database.items[call.bin_code]
        /\ \A n \in {3, 5} :
               (Len(call.bin_code) = 6 /\ Prefix(call.bin_code, n) \in DOMAIN database.items)
                   => ret.value # database.items[Prefix(call.bin_code, n)]

C4_Witness ==
    /\ DetectCalled
    /\ call.bin_code = Str(451710)
    /\ {Str(451710), Str(45171), Str(4517), Str(45), Str(4)} \subseteq DOMAIN database.items
    /\ ret.kind = "return"
    /\ ret.value.bank = "Jyske Bank"

(***************************************************************************)
(* C5: when the table holds none of the keys tried, the profile returned   *)
(* is the rule-based one: Visa/16/3 for a BIN starting with 4,             *)
(* Mastercard/16/3 with 5, American Express/15/4 with 34 or 37,            *)
(* Unknown/16/3 for any other; bank Unknown and country US in every case.  *)
(***************************************************************************)
RuleBased(brand, length, cvvLength) ==
    /\ ret.kind = "return"
    /\ DOMAIN ret.value = {"brand", "length", "cvvLength", "bank", "country"}
    /\ ret.value.brand = brand
    /\ ret.value.length = length
    /\ ret.value.cvvLength = cvvLength
    /\ ret.value.bank = "Unknown"
    /\ ret.value.country = "US"

C5_RuleBasedFallback ==
    (DetectCalled /\ Hits = {}) =>
        LET b == call.bin_code
        IN  CASE Len(b) >= 1 /\ b[1] = "4" -> RuleBased("Visa", 16, 3)
              [] Len(b) >= 1 /\ b[1] = "5" -> RuleBased("Mastercard", 16, 3)
              [] Len(b) >= 2 /\ b[1] = "3" /\ b[2] \in {"4", "7"} ->
                     RuleBased("American Express", 15, 4)
              [] OTHER -> RuleBased("Unknown", 16, 3)

C5_Witness ==
    /\ DetectCalled
    /\ Hits = {}
    /\ call.bin_code = Str(999999)
    /\ ret.kind = "return"
    /\ ret.value.brand = "Unknown"
    /\ ret.value.length = 16
    /\ ret.value.cvvLength = 3

(***************************************************************************)
(* C6: generate_card rejects a malformed BIN with an error: for a BIN that *)
(* is not numeric, or is not shorter than the resolved brand length        *)
(* (accountSegmentLength <= 0), the call ends in an error, so it returns   *)
(* no record (and none whose number length differs from the brand length). *)
(***************************************************************************)
C6_MalformedBinRejected ==
    (/\ GenerateCardCalled
     /\ database.type = "object"
     /\ (~CanInt(call.bin_code) \/ AccountSegmentLength <= 0))
        => ret.kind = "raise"

(***************************************************************************)
(* C7: generate_cvv returns exactly cvvLength decimal digits (100..999 for *)
(* 3, 1000..9999 for 4), decided by the last four digits of the card       *)
(* number, the expiry digits MMYY and cvvLength alone: seed = last4 +      *)
(* MMYY, value = (seed*9301 + 49297) mod 233280, CVV = value mod 900 + 100 *)
(* or value mod 9000 + 1000, recomputed once from value + 123 or           *)
(* value + 1234 when its first three digits are one repeated digit.        *)
(***************************************************************************)
\* the CVV as a number, from the numbers last4 and mmyy
CvvNumber(last4, mmyy, cvv_length) ==
    LET value == ((last4 + mmyy) * 9301 + 49297) % 233280
        range == IF cvv_length = 4 THEN 9000 ELSE 900
        low == IF cvv_length = 4 THEN 1000 ELSE 100
        first == (value % range) + low
        first3 == IF cvv_length = 4 THEN first \div 10 ELSE first
        offset == IF cvv_length = 4 THEN 1234 ELSE 123
    IN  IF first3 % 111 = 0 THEN ((value + offset) % range) + low ELSE first

C7_CvvShapeAndValue ==
    call.op = "generate_cvv" =>
        LET last4 == IntOf(Last(call.card_number, 4))
            mmyy == IntOf(SubSeq(call.expiry_date, 1, 2)) * 100
                    + IntOf(SubSeq(call.expiry_date, 4, 5))
        IN  /\ ret.kind = "return"
            /\ Len(ret.value) = call.cvv_length
            /\ AllDigits(ret.value)
            /\ call.cvv_length = 3 => IntOf(ret.value) \in 100..999
            /\ call.cvv_length = 4 => IntOf(ret.value) \in 1000..9999
            /\ IntOf(ret.value) = CvvNumber(last4, mmyy, call.cvv_length)

\* a 4-digit CVV that was recomputed: its first mapping started with 666
C7_Witness ==
    /\ call.op = "generate_cvv"
    /\ call.cvv_length = 4
    /\ LET seed == IntOf(call.card_number) + IntOf(Remove(call.expiry_date, "/"))
           first == (((seed * 9301 + 49297) % 233280) % 9000) + 1000
       IN  /\ first \div 10 = 666
           /\ IntOf(ret.value) = ((first - 1000 + 1234) % 9000) + 1000
    /\ Len(ret.value) = 4

(***************************************************************************)
(* C8: the formatted card number is the raw number with single spaces      *)
(* inserted and nothing else changed: groups of 4-6-5 digits when the      *)
(* profile length is 15, groups of 4-4-4 and then all remaining digits for *)
(* every other length; without its spaces it is the raw number.            *)
(***************************************************************************)
C8_Formatting ==
    CardReturned =>
        LET raw == ret.value.cardNumber
            formatted == ret.value.cardNumberFormatted
        IN  /\ Remove(formatted, " ") = raw
            /\ GroupSizes(formatted, 0) =
                   IF ResolvedLength = 15 THEN <<4, 6, 5>>
                   ELSE <<4, 4, 4, Len(raw) - 12>>

(***************************************************************************)
(* C9: every expiry is MM/YY with MM in 01..12 and YY the last two digits  *)
(* of the calendar year of the date now + 365*k days for some k in 2..6;   *)
(* that year is never earlier than the current year.                       *)
(***************************************************************************)
\* the number of days before 1 January of the year (proleptic Gregorian)
DaysBefore(year) ==
    (year - 1) * 365 + ((year - 1) \div 4) - ((year - 1) \div 100) + ((year - 1) \div 400)

\* the ordinal of a date: 1 January of year 1 is day 1
Ordinal(date) == DaysBefore(date.year) + date.doy

\* the calendar year the day with the given ordinal lies in
YearOfOrdinal(ordinal) ==
    CHOOSE y \in (now.year - 1)..(now.year + 8) :
        DaysBefore(y) < ordinal /\ ordinal <= DaysBefore(y + 1)

C9_ExpiryShape ==
    call.op = "generate_expiry_date" =>
        LET e == ret.value
        IN  /\ Len(e) = 5
            /\ e[3] = "/"
            /\ AllDigits(<<e[1], e[2], e[4], e[5]>>)
            /\ IntOf(<<e[1], e[2]>>) \in 1..12
            /\ \E k \in 2..6 :
                 LET y == YearOfOrdinal(Ordinal(now) + 365 * k)
                 IN  /\ y >= now.year
                     /\ IntOf(<<e[4], e[5]>>) = y % 100

\* on 1 January of a leap year, 2 * 365 days later is still the next year
C9_Witness ==
    /\ call.op = "generate_expiry_date"
    /\ IsLeap(now.year)
    /\ now.doy = 1
    /\ call.draws.rand_years < 15
    /\ IntOf(SubSeq(ret.value, 4, 5)) = (now.year + 1) % 100
    /\ IntOf(SubSeq(ret.value, 1, 2)) \in 1..12

(***************************************************************************)
(* C10: a missing or malformed BIN lookup source never makes loading fail: *)
(* the registry then holds an empty mapping, and detect_card_brand returns *)
(* the rule-based profile for every BIN.                                   *)
(***************************************************************************)
C10_MalformedSourceGivesRules ==
    source \in Malformed =>
        /\ database.type = "object"
        /\ DOMAIN database.items = {}
        /\ call.op = "detect_card_brand" =>
               ret = Return(_detect_by_rules(call.bin_code))

(***************************************************************************)
(* C11: the checksum retry of generate_card is never taken: the number     *)
(* with the computed check digit appended always validates, so a call is   *)
(* never followed by the call generate_card makes to itself, every call    *)
(* ends in its first pass, and a call with a non-empty all-digit BIN and a *)
(* loaded table returns a record.                                          *)
(***************************************************************************)
C11_NoRegeneration ==
    /\ pc # "regenerating"
    /\ GenerateCardCalled =>
         /\ call.depth = 0
         /\ ret.kind \in {"return", "raise"}
         /\ (Len(call.bin_code) > 0 /\ AllDigits(call.bin_code)
               /\ database.type = "object") => ret.kind = "return"
         /\ ret.kind = "return" =>
              LET number == ret.value.cardNumber
                  x == Prefix(number, Len(number) - 1)
              IN  /\ number = x \o calculate_check_digit(x)
                  /\ validate(x \o calculate_check_digit(x))

C11_Witness ==
    /\ CardReturned
    /\ call.bin_code = Str(532959)
    /\ call.depth = 0
    /\ pc = "returned"
    /\ validate(ret.value.cardNumber)

(***************************************************************************)
(* C12: the Luhn check digit is unique: calculate_check_digit returns one  *)
(* digit character 0..9, the one digit that makes the standard Luhn sum of *)
(* the extended string 0 mod 10, and validate accepts a non-empty digit    *)
(* string x followed by a digit d exactly when d is calculate_check_digit  *)
(* of x.                                                                   *)
(***************************************************************************)
C12_CheckDigitUnique ==
    /\ call.op = "calculate_check_digit" =>
         LET x == call.card_number
         IN  /\ Len(ret.value) = 1
             /\ ret.value[1] \in DigitSet
             /\ \A d \in DigitSet :
                  /\ validate(x \o <<d>>) <=> (<<d>> = ret.value)
                  /\ (LuhnStandardSum(x \o <<d>>, 1) % 10 = 0) <=> (<<d>> = ret.value)
    /\ (call.op = "validate" /\ Len(call.card_number) >= 2) =>
         LET x == Prefix(call.card_number, Len(call.card_number) - 1)
             d == Suffix(call.card_number, Len(call.card_number) - 1)
         IN  ret.value <=> (d = calculate_check_digit(x))

\* x = 59, whose doubled 9 folds to 9 (9 + 5 = 14): validate accepts 596 and
\* rejects 59 followed by any other digit
C12_Witness ==
    /\ call.op = "validate"
    /\ call.card_number = Str(596)
    /\ ret.value = TRUE
    /\ \A d \in DigitSet \ {"6"} : ~validate(Str(59) \o <<d>>)

(***************************************************************************)
(* The cumulative masses of the rows of the transition matrix.             *)
(***************************************************************************)
\* the exact mass of the first n columns of a row, in hundredths
RECURSIVE RowSum(_, _)
RowSum(row, n) == IF n = 0 THEN 0 ELSE RowSum(row, n - 1) + row[n]

\* the mass of the first n columns of a row as the doubles add up to it
RECURSIVE FloatRowSum(_, _)
FloatRowSum(row, n) ==
    IF n = 0 THEN FloatOf(0) ELSE FloatAdd(FloatRowSum(row, n - 1), FloatOf(row[n]))

\* both for every row p and every column d
ExactMass ==
    [p \in 0..9 |-> [d \in 0..9 |-> RowSum(TRANSITION_MATRIX[p + 1], d + 1)]]

FloatMass ==
    [p \in 0..9 |-> [d \in 0..9 |-> FloatRowSum(TRANSITION_MATRIX[p + 1], d + 1)]]

(***************************************************************************)
(* C13: for a requested length of at least 4 the account segment has that  *)
(* length, starts with the branch code ((the last 4 digits of the BIN, or  *)
(* the whole BIN when shorter, + bankSeed) mod 100, zero-padded to 2       *)
(* digits, bankSeed 0 for an empty or Unknown bank), ends with the         *)
(* sequence number drawn in 10..99, and every middle digit is what         *)
(* get_next_digit returns for the segment built so far: never the uniform  *)
(* digit of an empty sequence, always the column chosen in the row of the  *)
(* digit immediately before it.                                            *)
(***************************************************************************)
\* the account segment of the returned number: between the BIN and the check digit
AccountSegment ==
    Slice(ret.value.cardNumber, Len(call.bin_code), Len(ret.value.cardNumber) - 1)

C13_SegmentStructure ==
    (CardReturned /\ AccountSegmentLength >= 4) =>
        LET segment == AccountSegment
            n == Len(segment)
            bank == Get(ResolvedProfile, "bank", "Unknown")
            bankSeed == IF bank \in {"", "Unknown"} THEN 0 ELSE Md5Seed[bank]
            last4 == IF Len(call.bin_code) < 4 THEN call.bin_code
                     ELSE SubSeq(call.bin_code, Len(call.bin_code) - 3, Len(call.bin_code))
        IN  /\ n = AccountSegmentLength
            /\ SubSeq(segment, 1, 2) = Zfill(Str((IntOf(last4) + bankSeed) % 100), 2)
            /\ call.sequence \in 10..99
            /\ SubSeq(segment, n - 1, n) = Str(call.sequence)
            /\ \A i \in 3..(n - 2) :
                 LET so_far == SubSeq(segment, 1, i - 1)
                     digit == DigitOf(segment[i])
                     row == FloatMass[DigitOf(segment[i - 1])]
                     columns == { d \in 0..9 : FloatLess(call.rands[i - 2], row[d]) }
                 IN  /\ Len(so_far) > 0
                     /\ digit = get_next_digit(so_far, call.rands[i - 2], (digit + 1) % 10)
                     /\ IF columns = {} THEN digit = 0
                        ELSE digit \in columns /\ \A d \in columns : digit <= d

\* BIN 451710 of Jyske Bank (seed 85): branch code (1710 + 85) mod 100 = 95,
\* five middle digits, and a middle digit other than the uniform one
C13_Witness ==
    /\ CardReturned
    /\ call.bin_code = Str(451710)
    /\ Get(ResolvedProfile, "bank", "Unknown") = "Jyske Bank"
    /\ AccountSegmentLength = 9
    /\ SubSeq(AccountSegment, 1, 2) = Str(95)
    /\ \E i \in 3..7 : DigitOf(AccountSegment[i]) # call.rands[i - 2][1] \div 10

(***************************************************************************)
(* Definitions C14 is stated with.                                         *)
(***************************************************************************)
GetNextDigitCalled == call.op = "get_next_digit" /\ Len(call.previous_segment) > 0

\* the row get_next_digit reads: the digit of the last character
LastDigit == DigitOf(call.previous_segment[Len(call.previous_segment)])

\* the columns whose exact cumulative mass exceeds the draw
ExactColumns ==
    { d \in 0..9 :
        FloatLess(call.rand, <<ExactMass[LastDigit][d], 0>>) }

\* the columns whose cumulative mass, added up in doubles, exceeds the draw
FloatColumns == { d \in 0..9 : FloatLess(call.rand, FloatMass[LastDigit][d]) }

Lowest(columns) == CHOOSE d \in columns : \A c \in columns : d <= c

\* the draw is within 2^-53 of a cumulative threshold of the row
NearThreshold ==
    \E d \in 0..9 :
        /\ call.rand[1] = ExactMass[LastDigit][d]
        /\ call.rand[2] \in (-800)..800

RowsSumToOne == \A p \in 0..9 : ExactMass[p][9] = 100

(***************************************************************************)
(* C14 as stated: every row sums to 100 hundredths, and get_next_digit on  *)
(* a non-empty sequence returns, for every draw, the first column whose    *)
(* exact cumulative mass in the row of the last digit exceeds the draw.    *)
(***************************************************************************)
C14_ExactInverseCdf ==
    /\ RowsSumToOne
    /\ GetNextDigitCalled =>
         /\ ret.value \in 0..9
         /\ ExactColumns # {}
         /\ ret.value = Lowest(ExactColumns)

(***************************************************************************)
(* C14: every row sums to exactly 100 hundredths; get_next_digit on a      *)
(* non-empty sequence returns a digit 0..9 fixed by the last character and *)
(* the draw: the first column whose cumulative mass in the row of the last *)
(* digit, added up in double precision, exceeds the draw, and 0 when none  *)
(* does.  That is the first column whose exact cumulative mass exceeds the *)
(* draw for every draw farther than 2^-53 from each cumulative threshold   *)
(* of the row; within 2^-53 of a threshold it is that column or a          *)
(* neighbour of it, or the fallback 0, which is reached only by the draw   *)
(* 1 - 2^-53.                                                              *)
(***************************************************************************)
C14_FloatInverseCdf ==
    /\ RowsSumToOne
    /\ GetNextDigitCalled =>
         /\ ret.value \in 0..9
         /\ ret.value = IF FloatColumns = {} THEN 0 ELSE Lowest(FloatColumns)
         /\ ExactColumns # {}
         /\ ~NearThreshold => ret.value = Lowest(ExactColumns)
         /\ FloatColumns = {} => call.rand = Draw(100, -1)
         /\ FloatColumns # {} =>
              ret.value \in (Lowest(ExactColumns) - 1)..(Lowest(ExactColumns) + 1)

\* after a 0 the doubles add up to 1 - 2^-53: the draw 1 - 2^-53 is below no
\* sum and the fallback returns 0, where the exact masses give column 9
C14_Witness ==
    /\ GetNextDigitCalled
    /\ call.previous_segment = Str(10)
    /\ call.rand = Draw(100, -1)
    /\ FloatColumns = {}
    /\ Lowest(ExactColumns) = 9
    /\ ret.value = 0

====
